---- MODULE Spec2Model ----
(***************************************************************************)
(* Luna backend: the interest ledger, the booking registry, the lazily     *)
(* created per-venue locks and the POST /interests handler                 *)
(* (express_interest), run by a pool of request threads.                   *)
(*                                                                         *)
(* Each request thread walks through express_interest one statement group  *)
(* at a time (pc); the shared lists are the module-level globals of        *)
(* main.py.  Timestamps and log lines are left out: nothing reads them.    *)
(***************************************************************************)
EXTENDS Integers, Sequences, FiniteSets, TLC

(* ------------------------------ bounds -------------------------------- *)
NThreads == 2      \* request threads of the server's thread pool
MaxCalls == 3      \* POST /interests requests accepted in one run
MaxSeed  == 3      \* longest seeded ledger the process may start with
NCodes   == 2      \* distinct values random.randint may draw
MaxCount == 4      \* largest user_count handed to booking_agent on its own
MaxBookings == 2   \* longest bookings list handed to booking_agent on its own
MaxLiveCalls == 2  \* requests accepted in a run checked for progress
MaxFreshCalls == 5 \* requests accepted in a run that starts from an empty ledger

Threads == 1..NThreads

(* --------------------------- reference data --------------------------- *)
\* users_dict / venues_dict of data.py: id -> the fields the core reads.
\* Strings that are matched by substring are kept as character tuples.
UserOrder ==
    <<"u1", "u2", "u3", "u4", "u5", "u6", "u7", "u8", "u9", "u10", "u11">>

users_dict ==
    [u \in {UserOrder[i] : i \in DOMAIN UserOrder} |->
        CASE u = "u1" -> [interests |-> << <<"B", "a", "r">> >>]
          [] u = "u2" -> [interests |-> << <<"t", "e", "a">>, <<"c", "a", "f", "e", "s">> >>]
          [] u = "u3" -> [interests |-> << >>]
          [] u = "u4" -> [interests |-> << <<"a", "f">> >>]
          [] OTHER    -> [interests |-> << >>]]

venues_dict ==
    [v \in {"v1", "v2"} |->
        CASE v = "v1" -> [category |-> <<"B", "A", "R">>]
          [] v = "v2" -> [category |-> <<"C", "a", "f", "e">>]]

UserIds  == DOMAIN users_dict
VenueIds == DOMAIN venues_dict

\* The users whose POST /interests requests are followed.
Callers == {"u1", "u2", "u3", "u4"}

\* Requests the handler may receive: every pair of a caller and a venue,
\* one with an unknown user and one with an unknown venue.
Requests ==
    (Callers \X VenueIds) \cup {<<"nobody", "v1">>, <<"u1", "nowhere">>}

\* The ledger the process starts with (interests_list of data.py): a
\* duplicate-free list, here a prefix of SeedOrder.
SeedOrder == << <<"u1", "v1">>, <<"u2", "v1">>, <<"u3", "v1">>, <<"u4", "v1">>,
                <<"u1", "v2">>, <<"u2", "v2">> >>

\* A seeded ledger with two venues one interest short of the threshold.
TwoVenueSeed == << <<"u1", "v1">>, <<"u2", "v1">>, <<"u1", "v2">>, <<"u2", "v2">> >>

SeedLedgers ==
    {SubSeq(SeedOrder, 1, k) : k \in 0..(IF MaxSeed < Len(SeedOrder) THEN MaxSeed ELSE Len(SeedOrder))}
        \cup {TwoVenueSeed}

\* The keys venue_locks may hold: any venue id a request can carry.
LockKeys == {rq[2] : rq \in Requests}

threshold == 3

NoCode == <<>>
NoLock == 0

(* ------------------------------- state -------------------------------- *)
VARIABLES
    interests_list,   \* the Interest Ledger: sequence of <<user_id, venue_id>>
    bookings_list,    \* the Booking Registry: sequence of booking records
    venue_locks,      \* venue_id -> lock object (NoLock: no entry)
    locks,            \* lock object -> owning thread (0: free)
    frame,            \* thread -> its activation of express_interest
    response,         \* thread -> the InterestResponse of its last request
    calls,            \* requests accepted so far
    pre,              \* the request in progress and the lists it started from
    prev              \* the request before it

vars == <<interests_list, bookings_list, venue_locks, locks, frame, response,
          calls, pre, prev>>

IdleFrame ==
    [pc |-> "idle", user_id |-> "", venue_id |-> "", venue_lock |-> NoLock,
     existing_interest |-> 0, interested_count |-> 0, active_booking |-> 0,
     interested_user_ids |-> <<>>, agent_response |-> [agent_triggered |-> FALSE,
     action |-> "None", booking_id |-> 0, reservation_code |-> NoCode]]

NoResponse == [outcome |-> "none", reservation_code |-> NoCode]
NoRequest == [thread |-> 0, user_id |-> "", venue_id |-> "", interests |-> <<>>,
              bookings |-> <<>>, outcome |-> "none"]

(* ------------------------------ helpers ------------------------------- *)
\* main.py get_interested_count
get_interested_count(ledger, venue_id) ==
    Cardinality({i \in DOMAIN ledger : ledger[i][2] = venue_id})

\* the list comprehension of express_interest: user ids in ledger order
RECURSIVE interested_users(_, _)
interested_users(ledger, venue_id) ==
    IF ledger = <<>> THEN <<>>
    ELSE IF Head(ledger)[2] = venue_id
         THEN <<Head(ledger)[1]>> \o interested_users(Tail(ledger), venue_id)
         ELSE interested_users(Tail(ledger), venue_id)

\* faulty variant, for sensitivity checks: matches the user alone, whatever the venue
FindInterest_user_only(ledger, user_id, venue_id) ==
    LET hits == {i \in DOMAIN ledger : ledger[i][1] = user_id}
    IN  IF hits = {} THEN 0 ELSE CHOOSE i \in hits : \A j \in hits : i <= j

\* the enumerate loop of express_interest: first index holding the pair, 0 for None
FindInterest(ledger, user_id, venue_id) ==
    LET hits == {i \in DOMAIN ledger : ledger[i] = <<user_id, venue_id>>}
    IN  IF hits = {} THEN 0 ELSE CHOOSE i \in hits : \A j \in hits : i <= j

\* list.pop(i)
Pop(list, i) == SubSeq(list, 1, i - 1) \o SubSeq(list, i + 1, Len(list))

\* faulty variant, for sensitivity checks: the scan takes a booking of the venue whatever its status
FindActiveBooking_any_status(bookings, venue_id) ==
    LET hits == {i \in DOMAIN bookings : bookings[i].venue_id = venue_id}
    IN  IF hits = {} THEN 0 ELSE CHOOSE i \in hits : \A j \in hits : i <= j

\* the scan for the first active booking of a venue: its index, 0 for None
FindActiveBooking(bookings, venue_id) ==
    LET hits == {i \in DOMAIN bookings :
                    bookings[i].venue_id = venue_id /\ bookings[i].status = "active"}
    IN  IF hits = {} THEN 0 ELSE CHOOSE i \in hits : \A j \in hits : i <= j

\* faulty variant, for sensitivity checks: the threshold test is off by one (user_count <= threshold)
booking_agent_off_by_one(venue_id, user_count, interested_user_ids, existing_bookings, rnd) ==
    IF user_count <= threshold
    THEN [agent_triggered |-> FALSE, action |-> "None", booking_id |-> 0,
          reservation_code |-> NoCode]
    ELSE IF FindActiveBooking(existing_bookings, venue_id) # 0
    THEN [agent_triggered |-> FALSE, action |-> "booking_exists", booking_id |-> 0,
          reservation_code |->
              existing_bookings[FindActiveBooking(existing_bookings, venue_id)].reservation_code]
    ELSE [agent_triggered |-> TRUE, action |-> "reservation_simulated",
          booking_id |-> Len(existing_bookings) + 1,
          reservation_code |-> <<venue_id, rnd>>]

\* faulty variant, for sensitivity checks: the scan for an existing active booking is missing
booking_agent_no_duplicate_check(venue_id, user_count, interested_user_ids, existing_bookings, rnd) ==
    IF user_count < threshold
    THEN [agent_triggered |-> FALSE, action |-> "None", booking_id |-> 0,
          reservation_code |-> NoCode]
    ELSE [agent_triggered |-> TRUE, action |-> "reservation_simulated",
          booking_id |-> Len(existing_bookings) + 1,
          reservation_code |-> <<venue_id, rnd>>]

\* agent.py booking_agent; rnd is the value random.randint draws
booking_agent(venue_id, user_count, interested_user_ids, existing_bookings, rnd) ==
    IF user_count < threshold
    THEN [agent_triggered |-> FALSE, action |-> "None", booking_id |-> 0,
          reservation_code |-> NoCode]
    ELSE IF FindActiveBooking(existing_bookings, venue_id) # 0
    THEN [agent_triggered |-> FALSE, action |-> "booking_exists", booking_id |-> 0,
          reservation_code |->
              existing_bookings[FindActiveBooking(existing_bookings, venue_id)].reservation_code]
    ELSE [agent_triggered |-> TRUE, action |-> "reservation_simulated",
          booking_id |-> Len(existing_bookings) + 1,
          reservation_code |-> <<venue_id, rnd>>]

(* ----------------------- recommendation scorer ------------------------ *)
\* str.lower() on the letters the reference data uses
Lower(c) ==
    CASE c = "A" -> "a" [] c = "B" -> "b" [] c = "C" -> "c" [] c = "R" -> "r"
      [] OTHER -> c

LowerStr(str) == [i \in DOMAIN str |-> Lower(str[i])]

\* Python's `a in b` on strings
IsSubstring(a, b) ==
    \E k \in 0..(Len(b) - Len(a)) : SubSeq(b, k + 1, k + Len(a)) = a

\* the category loop of calculate_recommendation_score
CategoryMatches(user_id, venue_id) ==
    LET venue_category_lower == LowerStr(venues_dict[venue_id].category)
        tags == users_dict[user_id].interests
    IN  \E i \in DOMAIN tags :
            \/ IsSubstring(LowerStr(tags[i]), venue_category_lower)
            \/ IsSubstring(venue_category_lower, LowerStr(tags[i]))

\* faulty variant, for sensitivity checks: counts every interested user, the caller included
count_friends_interested_all(ledger, user_id, venue_id) ==
    Cardinality({i \in DOMAIN ledger : ledger[i][2] = venue_id})

\* main.py count_friends_interested
count_friends_interested(ledger, user_id, venue_id) ==
    Cardinality({i \in DOMAIN ledger : ledger[i][2] = venue_id /\ ledger[i][1] # user_id})

\* faulty variant, for sensitivity checks: no cap, the first argument is returned
Min_first(a, b) == a

\* Python's min on two numbers
Min(a, b) == IF a < b THEN a ELSE b

\* main.py calculate_recommendation_score.  The score is kept in thirds of a
\* point, so that other_users_interested / 3 stays exact: score3 = 3 * score.
calculate_recommendation_score(ledger, user_id, venue_id) ==
    IF user_id \notin UserIds \/ venue_id \notin VenueIds
    THEN [score3 |-> 0, reason |-> <<"Invalid user or venue">>,
          friends_interested |-> 0, total_interested |-> 0]
    ELSE
    LET total_interested_count == get_interested_count(ledger, venue_id)
        other_users_interested ==
            Cardinality({i \in DOMAIN ledger :
                            ledger[i][2] = venue_id /\ ledger[i][1] # user_id})
        friends_interested == count_friends_interested(ledger, user_id, venue_id)
        popularity3 == Min(other_users_interested, 3 * 3)
        match == CategoryMatches(user_id, venue_id)
        friend_score == Min(friends_interested, 3)
        reasons ==
            (IF other_users_interested > 0 THEN <<"Popular venue">> ELSE <<>>)
            \o (IF match THEN <<"Matches your interests">> ELSE <<>>)
            \o (IF friends_interested > 0
                THEN << <<friends_interested,
                          IF friends_interested > 1 THEN "friends interested"
                                                    ELSE "friend interested">> >>
                ELSE <<>>)
    IN  [score3 |-> popularity3 + (IF match THEN 3 * 4 ELSE 0) + 3 * friend_score,
         reason |-> IF reasons # <<>> THEN reasons ELSE <<"New venue to explore">>,
         friends_interested |-> friends_interested,
         total_interested |-> total_interested_count]

\* venues_dict.items(): the directory's iteration (insertion) order
VenueOrder == <<"v1", "v2">>

\* round(score, 1), in tenths of a point, from the score in thirds; a third
\* is never half way between two tenths, so nearest is floor(x + 1/2)
RoundedScore(score3) == (20 * score3 + 3) \div 6

\* faulty variant, for sensitivity checks: venues the user already likes sort last
SortKey_liked_last(rec) == rec.score - (IF rec.already_interested THEN 1000 ELSE 0)

\* recommendations.sort(key=lambda x: -x["score"]): larger key first
SortKey(rec) == rec.score

\* faulty variant, for sensitivity checks: an entry goes before the entries of equal key
RECURSIVE SortRecommendations_ties_reversed(_)
SortRecommendations_ties_reversed(recs) ==
    IF recs = <<>> THEN <<>>
    ELSE LET sorted == SortRecommendations_ties_reversed(SubSeq(recs, 1, Len(recs) - 1))
             x == recs[Len(recs)]
             k == Cardinality({i \in DOMAIN sorted : SortKey(sorted[i]) > SortKey(x)})
         IN  SubSeq(sorted, 1, k) \o <<x>> \o SubSeq(sorted, k + 1, Len(sorted))

\* list.sort is stable: an entry goes after every entry whose key is not smaller
RECURSIVE SortRecommendations(_)
SortRecommendations(recs) ==
    IF recs = <<>> THEN <<>>
    ELSE LET sorted == SortRecommendations(SubSeq(recs, 1, Len(recs) - 1))
             x == recs[Len(recs)]
             k == Cardinality({i \in DOMAIN sorted : SortKey(sorted[i]) >= SortKey(x)})
         IN  SubSeq(sorted, 1, k) \o <<x>> \o SubSeq(sorted, k + 1, Len(sorted))

\* GET /recommendations for a known user: one entry per venue, sorted by score
get_recommendations(ledger, user_id) ==
    LET user_interested_venue_ids ==
            {ledger[i][2] : i \in {j \in DOMAIN ledger : ledger[j][1] = user_id}}
        entry(venue_id) ==
            LET r == calculate_recommendation_score(ledger, user_id, venue_id)
            IN  [venue_id |-> venue_id,
                 score |-> RoundedScore(r.score3),
                 reason |-> r.reason,
                 already_interested |-> venue_id \in user_interested_venue_ids,
                 friends_interested |-> r.friends_interested,
                 total_interested |-> r.total_interested]
    IN  SortRecommendations([i \in DOMAIN VenueOrder |-> entry(VenueOrder[i])])

\* GET /venues/{venue_id}/booking: the venue's first active booking, if any
get_venue_booking(bookings, venue_id) ==
    IF FindActiveBooking(bookings, venue_id) # 0
    THEN [has_booking |-> TRUE, booking |-> bookings[FindActiveBooking(bookings, venue_id)]]
    ELSE [has_booking |-> FALSE, booking |-> "None"]

\* GET /bookings/{user_id} for a known user: the active bookings that list
\* the user, in registry order
get_user_bookings(bookings, user_id) ==
    LET listed(b) == \E i \in DOMAIN b.user_ids : b.user_ids[i] = user_id
        hits == SelectSeq(bookings, LAMBDA b : b.status = "active" /\ listed(b)
                                                /\ b.venue_id \in VenueIds)
    IN  [i \in DOMAIN hits |->
            [id |-> hits[i].id, venue_id |-> hits[i].venue_id,
             reservation_code |-> hits[i].reservation_code,
             party_size |-> Len(hits[i].user_ids)]]

(* ------------------------------- Init --------------------------------- *)
Init ==
    /\ interests_list \in SeedLedgers
    /\ bookings_list = <<>>
    /\ venue_locks = [v \in LockKeys |-> NoLock]
    /\ locks = <<>>
    /\ frame = [t \in Threads |-> IdleFrame]
    /\ response = [t \in Threads |-> NoResponse]
    /\ calls = 0
    /\ pre = NoRequest
    /\ prev = NoRequest

(* --------------------------- express_interest ------------------------- *)
Goto(t, label) == frame' = [frame EXCEPT ![t].pc = label]

\* leaving the function: the with-block releases the lock the thread took
Return(t, outcome, code) ==
    /\ response' = [response EXCEPT ![t] = [outcome |-> outcome, reservation_code |-> code]]
    /\ frame' = [frame EXCEPT ![t] = IdleFrame]
    /\ locks' = [locks EXCEPT ![frame[t].venue_lock] = 0]

\* faulty variant, for sensitivity checks: the venue's lock is fetched before the ids are validated
Receive_lock_first(t, user_id, venue_id) ==
    /\ frame[t].pc = "idle"
    /\ calls' = calls + 1
    /\ IF user_id \notin UserIds \/ venue_id \notin VenueIds
       THEN /\ response' = [response EXCEPT ![t] =
                               [outcome |-> "NotFound", reservation_code |-> NoCode]]
            /\ UNCHANGED frame
            /\ IF venue_locks[venue_id] = NoLock
               THEN /\ locks' = Append(locks, 0)
                    /\ venue_locks' = [venue_locks EXCEPT ![venue_id] = Len(locks) + 1]
               ELSE UNCHANGED <<venue_locks, locks>>
       ELSE /\ response' = [response EXCEPT ![t] = NoResponse]
            /\ frame' = [frame EXCEPT ![t] =
                            [IdleFrame EXCEPT !.pc = "get_venue_lock",
                                              !.user_id = user_id,
                                              !.venue_id = venue_id]]
            /\ UNCHANGED <<venue_locks, locks>>
    /\ UNCHANGED <<interests_list, bookings_list>>

\* a request arrives; unknown user or venue -> 404 before any lock is touched
Receive(t, user_id, venue_id) ==
    /\ frame[t].pc = "idle"
    /\ calls' = calls + 1
    /\ IF user_id \notin UserIds \/ venue_id \notin VenueIds
       THEN /\ response' = [response EXCEPT ![t] =
                               [outcome |-> "NotFound", reservation_code |-> NoCode]]
            /\ UNCHANGED frame
       ELSE /\ response' = [response EXCEPT ![t] = NoResponse]
            /\ frame' = [frame EXCEPT ![t] =
                            [IdleFrame EXCEPT !.pc = "get_venue_lock",
                                              !.user_id = user_id,
                                              !.venue_id = venue_id]]
    /\ UNCHANGED <<interests_list, bookings_list, venue_locks, locks>>

Call(t, user_id, venue_id) ==
    /\ calls < MaxCalls
    /\ Receive(t, user_id, venue_id)
    /\ UNCHANGED <<pre, prev>>

\* get_venue_lock: if venue_id not in venue_locks
LockCheck(t) ==
    /\ frame[t].pc = "get_venue_lock"
    /\ Goto(t, IF venue_locks[frame[t].venue_id] = NoLock THEN "lock_create" ELSE "lock_return")
    /\ UNCHANGED <<interests_list, bookings_list, venue_locks, locks, response, calls, pre, prev>>

\* get_venue_lock: venue_locks[venue_id] = threading.Lock()
LockCreate(t) ==
    /\ frame[t].pc = "lock_create"
    /\ locks' = Append(locks, 0)
    /\ venue_locks' = [venue_locks EXCEPT ![frame[t].venue_id] = Len(locks) + 1]
    /\ Goto(t, "lock_return")
    /\ UNCHANGED <<interests_list, bookings_list, response, calls, pre, prev>>

\* get_venue_lock: return venue_locks[venue_id]
LockReturn(t) ==
    /\ frame[t].pc = "lock_return"
    /\ frame' = [frame EXCEPT ![t].pc = "acquire",
                              ![t].venue_lock = venue_locks[frame[t].venue_id]]
    /\ UNCHANGED <<interests_list, bookings_list, venue_locks, locks, response, calls, pre, prev>>

\* faulty variant, for sensitivity checks: one exclusive access shared by all venues
Acquire_global(t) ==
    /\ frame[t].pc = "acquire"
    /\ \A l \in DOMAIN locks : locks[l] = 0
    /\ locks' = [locks EXCEPT ![frame[t].venue_lock] = t]
    /\ Goto(t, "find")
    /\ UNCHANGED <<interests_list, bookings_list, venue_locks, response, calls, pre, prev>>

\* with venue_lock: blocks until the lock object is free
Acquire(t) ==
    /\ frame[t].pc = "acquire"
    /\ locks[frame[t].venue_lock] = 0
    /\ locks' = [locks EXCEPT ![frame[t].venue_lock] = t]
    /\ Goto(t, "find")
    /\ UNCHANGED <<interests_list, bookings_list, venue_locks, response, calls, pre, prev>>

\* the scan for an existing interest of (user_id, venue_id)
Find(t) ==
    /\ frame[t].pc = "find"
    /\ LET i == FindInterest(interests_list, frame[t].user_id, frame[t].venue_id)
       IN  frame' = [frame EXCEPT ![t].existing_interest = i,
                                  ![t].pc = IF i # 0 THEN "pop" ELSE "append"]
    /\ UNCHANGED <<interests_list, bookings_list, venue_locks, locks, response, calls, pre, prev>>

\* toggle off: interests_list.pop(existing_interest); an index past the end
\* raises IndexError, which leaves the handler unhandled
RemoveInterest(t) ==
    /\ frame[t].pc = "pop"
    /\ IF frame[t].existing_interest \in DOMAIN interests_list
       THEN /\ interests_list' = Pop(interests_list, frame[t].existing_interest)
            /\ Goto(t, "off_check")
            /\ UNCHANGED <<locks, response>>
       ELSE /\ Return(t, "Error", NoCode)
            /\ UNCHANGED interests_list
    /\ UNCHANGED <<bookings_list, venue_locks, calls, pre, prev>>

\* toggle off: recount, look for the venue's active booking
OffCheck(t) ==
    /\ frame[t].pc = "off_check"
    /\ frame' = [frame EXCEPT
                    ![t].interested_count = get_interested_count(interests_list, frame[t].venue_id),
                    ![t].active_booking = FindActiveBooking(bookings_list, frame[t].venue_id),
                    ![t].pc = "off_finish"]
    /\ UNCHANGED <<interests_list, bookings_list, venue_locks, locks, response, calls, pre, prev>>

\* faulty variant, for sensitivity checks: cancels only below 2
ShouldCancel_below_two(active_booking, interested_count) ==
    active_booking # 0 /\ interested_count < 2

\* faulty variant, for sensitivity checks: cancels at the threshold too
ShouldCancel_at_threshold(active_booking, interested_count) ==
    active_booking # 0 /\ interested_count <= 3

\* faulty variant, for sensitivity checks: a toggle-off never cancels
ShouldCancel_never(active_booking, interested_count) == FALSE

\* toggle off: if active_booking and interested_count < 3
ShouldCancel(active_booking, interested_count) ==
    active_booking # 0 /\ interested_count < 3

\* faulty variant, for sensitivity checks: the booking is deleted from the registry
CancelBooking_delete(bookings, i) == Pop(bookings, i)

\* toggle off: active_booking["status"] = "cancelled"
CancelBooking(bookings, i) == [bookings EXCEPT ![i].status = "cancelled"]

\* toggle off: cancel the booking when the count dropped below 3
OffFinish(t) ==
    /\ frame[t].pc = "off_finish"
    /\ IF ShouldCancel(frame[t].active_booking, frame[t].interested_count)
       THEN /\ bookings_list' = CancelBooking(bookings_list, frame[t].active_booking)
            /\ Return(t, "BookingCancelled", NoCode)
       ELSE /\ UNCHANGED bookings_list
            /\ Return(t, "InterestRemoved", NoCode)
    /\ UNCHANGED <<interests_list, venue_locks, calls, pre, prev>>

\* toggle on: interests_list.append(new_interest)
AddInterest(t) ==
    /\ frame[t].pc = "append"
    /\ interests_list' = Append(interests_list, <<frame[t].user_id, frame[t].venue_id>>)
    /\ Goto(t, "on_count")
    /\ UNCHANGED <<bookings_list, venue_locks, locks, response, calls, pre, prev>>

\* toggle on: the interested user ids of the venue and their number
OnCount(t) ==
    /\ frame[t].pc = "on_count"
    /\ LET ids == interested_users(interests_list, frame[t].venue_id)
       IN  frame' = [frame EXCEPT ![t].interested_user_ids = ids,
                                  ![t].interested_count = Len(ids),
                                  ![t].pc = "agent"]
    /\ UNCHANGED <<interests_list, bookings_list, venue_locks, locks, response, calls, pre, prev>>

\* toggle on: agent_response = booking_agent(...)
Agent(t) ==
    /\ frame[t].pc = "agent"
    /\ \E rnd \in 1..NCodes :
          frame' = [frame EXCEPT
                       ![t].agent_response =
                           booking_agent(frame[t].venue_id, frame[t].interested_count,
                                         frame[t].interested_user_ids, bookings_list,
                                         rnd),
                       ![t].pc = "on_finish"]
    /\ UNCHANGED <<interests_list, bookings_list, venue_locks, locks, response, calls, pre, prev>>

\* toggle on: build the response from the agent's answer
OnFinish(t) ==
    /\ frame[t].pc = "on_finish"
    /\ LET r == frame[t].agent_response
       IN  IF r.agent_triggered
           THEN /\ bookings_list' = Append(bookings_list,
                       [id |-> r.booking_id, venue_id |-> frame[t].venue_id,
                        user_ids |-> frame[t].interested_user_ids,
                        reservation_code |-> r.reservation_code, status |-> "active"])
                /\ Return(t, "BookingCreated", r.reservation_code)
           ELSE IF r.action = "booking_exists"
           THEN /\ UNCHANGED bookings_list
                /\ Return(t, "BookingAlreadyActive", r.reservation_code)
           ELSE /\ UNCHANGED bookings_list
                /\ Return(t, "InterestRecorded", NoCode)
    /\ UNCHANGED <<interests_list, venue_locks, calls, pre, prev>>

\* faulty variant, for sensitivity checks: no except clause, the exception leaves the handler
AgentFault_unhandled(t) ==
    /\ frame[t].pc = "agent"
    /\ Return(t, "Error", NoCode)
    /\ UNCHANGED <<interests_list, bookings_list, venue_locks, calls, pre, prev>>

\* faulty variant, for sensitivity checks: the failing request returns without releasing its lock
AgentFault_keeps_lock(t) ==
    /\ frame[t].pc = "agent"
    /\ response' = [response EXCEPT ![t] =
                       [outcome |-> "InterestRecorded", reservation_code |-> NoCode]]
    /\ frame' = [frame EXCEPT ![t] = IdleFrame]
    /\ UNCHANGED <<interests_list, bookings_list, venue_locks, locks, calls, pre, prev>>

\* toggle on: booking_agent raises; the except clause logs it and answers
\* "Interest recorded successfully"
AgentFault(t) ==
    /\ frame[t].pc = "agent"
    /\ Return(t, "InterestRecorded", NoCode)
    /\ UNCHANGED <<interests_list, bookings_list, venue_locks, calls, pre, prev>>

(* ------------------------- the read handlers -------------------------- *)
\* faulty variant, for sensitivity checks: the read waits until no venue lock is held
Answer_waits_for_locks(t, outcome, request, result) ==
    /\ frame[t].pc = "idle"
    /\ \A l \in DOMAIN locks : locks[l] = 0
    /\ response' = [response EXCEPT ![t] =
                       [outcome |-> outcome, reservation_code |-> NoCode,
                        request |-> request, result |-> result]]
    /\ UNCHANGED <<interests_list, bookings_list, venue_locks, locks, frame,
                   calls, pre, prev>>

\* A read handler runs on a free pool thread; it takes no lock and writes
\* nothing but its answer.
Answer(t, outcome, request, result) ==
    /\ frame[t].pc = "idle"
    /\ response' = [response EXCEPT ![t] =
                       [outcome |-> outcome, reservation_code |-> NoCode,
                        request |-> request, result |-> result]]
    /\ UNCHANGED <<interests_list, bookings_list, venue_locks, locks, frame,
                   calls, pre, prev>>

\* calculate_recommendation_score(user_id, venue_id)
ScoreCall(t, user_id, venue_id) ==
    Answer(t, "Score", <<user_id, venue_id>>,
           calculate_recommendation_score(interests_list, user_id, venue_id))

\* GET /recommendations?user_id=...
Recommendations(t, user_id) ==
    IF user_id \notin UserIds
    THEN Answer(t, "NotFound", <<user_id>>, <<>>)
    ELSE Answer(t, "Recommendations", <<user_id>>,
                get_recommendations(interests_list, user_id))

\* GET /bookings/{user_id}
UserBookings(t, user_id) ==
    IF user_id \notin UserIds
    THEN Answer(t, "NotFound", <<user_id>>, <<>>)
    ELSE Answer(t, "UserBookings", <<user_id>>,
                get_user_bookings(bookings_list, user_id))

\* GET /venues/{venue_id}/booking
VenueBooking(t, venue_id) ==
    IF venue_id \notin VenueIds
    THEN Answer(t, "NotFound", <<venue_id>>, <<>>)
    ELSE Answer(t, "VenueBooking", <<venue_id>>,
                get_venue_booking(bookings_list, venue_id))

Step(t) ==
    \/ LockCheck(t) \/ LockCreate(t) \/ LockReturn(t) \/ Acquire(t) \/ Find(t)
    \/ RemoveInterest(t) \/ OffCheck(t) \/ OffFinish(t)
    \/ AddInterest(t) \/ OnCount(t) \/ Agent(t) \/ OnFinish(t)

Next ==
    \E t \in Threads :
        \/ \E rq \in Requests : Call(t, rq[1], rq[2])
        \/ Step(t)

Spec == Init /\ [][Next]_vars

(* ------------------- requests served one at a time -------------------- *)
\* The same handler, with a request accepted only when no other request is
\* in progress.  pre remembers the request and the lists it started from,
\* prev the request before it and how it ended.
AllIdle == \A t \in Threads : frame[t].pc = "idle"

SeqReceive(t, user_id, venue_id) ==
    /\ AllIdle
    /\ Receive(t, user_id, venue_id)
    /\ pre' = [thread |-> t, user_id |-> user_id, venue_id |-> venue_id,
               interests |-> interests_list, bookings |-> bookings_list,
               outcome |-> "none"]
    /\ prev' = IF pre.thread = 0 THEN pre
               ELSE [pre EXCEPT !.outcome = response[pre.thread].outcome]

SeqCall(t, user_id, venue_id) ==
    /\ calls < MaxCalls
    /\ SeqReceive(t, user_id, venue_id)

\* With one request at a time it does not matter which pool thread serves
\* it: one thread serves them all.
Server == CHOOSE t \in Threads : TRUE

SeqNext ==
    \/ \E rq \in Requests : SeqCall(Server, rq[1], rq[2])
    \/ Step(Server)

SeqSpec == Init /\ [][SeqNext]_vars

\* One request at a time, with a booking collaborator that may raise.
FaultSeqNext ==
    \/ \E rq \in Requests : SeqCall(Server, rq[1], rq[2])
    \/ Step(Server)
    \/ AgentFault(Server)

FaultSeqSpec == Init /\ [][FaultSeqNext]_vars

(* --------------------- booking_agent on its own ----------------------- *)
\* The lists booking_agent may be handed as existing_bookings: any bookings,
\* of any venue, active or cancelled, also several active ones of a venue.
BookingLists ==
    UNION {{[i \in 1..n |->
                [id |-> i, venue_id |-> f[i][1], user_ids |-> <<>>,
                 reservation_code |-> <<f[i][1], f[i][3]>>, status |-> f[i][2]]] :
            f \in [1..n -> VenueIds \X {"active", "cancelled"} \X (1..NCodes)]} :
           n \in 0..MaxBookings}

\* booking_agent is about to be called with a venue id, a count and a
\* bookings list drawn freely.
DecideInit ==
    /\ interests_list = <<>>
    /\ bookings_list \in BookingLists
    /\ venue_locks = [v \in LockKeys |-> NoLock]
    /\ locks = <<>>
    /\ \E v \in VenueIds, n \in 0..MaxCount :
          frame = [t \in Threads |->
                      IF t = Server
                      THEN [IdleFrame EXCEPT !.pc = "agent", !.venue_id = v,
                                             !.interested_count = n]
                      ELSE IdleFrame]
    /\ response = [t \in Threads |-> NoResponse]
    /\ calls = 0
    /\ pre = NoRequest
    /\ prev = NoRequest

DecideNext == Agent(Server)

DecideSpec == DecideInit /\ [][DecideNext]_vars

(* ------------ one request at a time, from an empty ledger ------------- *)
\* The process starts with no Interest and no booking and serves up to
\* MaxFreshCalls requests of known users on known venues, one at a time.
FreshInit ==
    /\ interests_list = <<>>
    /\ bookings_list = <<>>
    /\ venue_locks = [v \in LockKeys |-> NoLock]
    /\ locks = <<>>
    /\ frame = [t \in Threads |-> IdleFrame]
    /\ response = [t \in Threads |-> NoResponse]
    /\ calls = 0
    /\ pre = NoRequest
    /\ prev = NoRequest

FreshCall(t, user_id, venue_id) ==
    /\ calls < MaxFreshCalls
    /\ SeqReceive(t, user_id, venue_id)

FreshNext ==
    \/ \E rq \in Callers \X VenueIds : FreshCall(Server, rq[1], rq[2])
    \/ Step(Server)

FreshSpec == FreshInit /\ [][FreshNext]_vars

(* ------------- concurrent requests, faults, fair scheduling ----------- *)
\* The pool threads serve up to MaxLiveCalls requests concurrently, the
\* booking collaborator may raise, and the scheduler lets every thread that
\* can take a step take one eventually.
LiveCall(t, user_id, venue_id) ==
    /\ calls < MaxLiveCalls
    /\ Call(t, user_id, venue_id)

LiveNext ==
    \E t \in Threads :
        \/ \E rq \in Requests : LiveCall(t, rq[1], rq[2])
        \/ Step(t)
        \/ AgentFault(t)

LiveSpec ==
    /\ Init
    /\ [][LiveNext]_vars
    /\ \A t \in Threads : WF_vars(Step(t) \/ AgentFault(t))

(* ------------------ reads beside one toggle at a time ------------------ *)
\* One thread serves the POST /interests requests one at a time while
\* another serves the read endpoints, at any moment.
Reader == CHOOSE t \in Threads : t # Server

ReadUsers == {"u3", "nobody"}
ReadVenues == {"v1", "nowhere"}

Reads ==
    \/ \E user_id \in ReadUsers, venue_id \in ReadVenues :
          ScoreCall(Reader, user_id, venue_id)
    \/ \E user_id \in ReadUsers : Recommendations(Reader, user_id)
    \/ \E user_id \in ReadUsers : UserBookings(Reader, user_id)
    \/ \E venue_id \in ReadVenues : VenueBooking(Reader, venue_id)

ReadNext == SeqNext \/ Reads

ReadSpec == Init /\ [][ReadNext]_vars

(* ---------------------- the scorer on its own ------------------------- *)
\* Duplicate-free ledgers in which the first k users of the directory like
\* the first venue and the first m users like the second one.
ScoreLedgers ==
    {[i \in 1..k |-> <<UserOrder[i], VenueOrder[1]>>]
        \o [i \in 1..m |-> <<UserOrder[i], VenueOrder[2]>>] :
     k \in 0..Len(UserOrder),
     m \in 0..(IF MaxSeed < Len(UserOrder) THEN MaxSeed ELSE Len(UserOrder))}

ScoreInit ==
    /\ interests_list \in ScoreLedgers
    /\ bookings_list = <<>>
    /\ venue_locks = [v \in LockKeys |-> NoLock]
    /\ locks = <<>>
    /\ frame = [t \in Threads |-> IdleFrame]
    /\ response = [t \in Threads |-> NoResponse]
    /\ calls = 0
    /\ pre = NoRequest
    /\ prev = NoRequest

ScoreNext ==
    \E user_id \in UserIds \cup {"nobody"}, venue_id \in VenueIds :
        ScoreCall(Server, user_id, venue_id)

ScoreSpec == ScoreInit /\ [][ScoreNext]_vars

(* ===================== the lock table and the race ==================== *)
ActiveBookings(bookings, venue_id) ==
    {i \in DOMAIN bookings :
        bookings[i].venue_id = venue_id /\ bookings[i].status = "active"}

InLockedSection(t) ==
    frame[t].pc \in {"find", "pop", "off_check", "off_finish",
                     "append", "on_count", "agent", "on_finish"}

\* C1: in every reachable state, under any interleaving of concurrent
\* requests, the registry holds at most one active booking per venue.
C1_AtMostOneActiveBooking ==
    \A v \in VenueIds : Cardinality(ActiveBookings(bookings_list, v)) <= 1

\* C2: two requests on the same venue are never both inside the locked
\* section of express_interest.
C2_SameVenueSerialized ==
    \A s, t \in Threads :
        (s # t /\ InLockedSection(s) /\ InLockedSection(t))
            => frame[s].venue_id # frame[t].venue_id

\* C3: every caller of get_venue_lock for one venue receives the same lock
\* object, which is the one the lock table holds for that venue.
C3_OneLockPerVenue ==
    \A t \in Threads :
        frame[t].venue_lock # NoLock
            => frame[t].venue_lock = venue_locks[frame[t].venue_id]

\* C4: the ledger holds at most one Interest per (user_id, venue_id) pair.
C4_InterestUnique ==
    \A i, j \in DOMAIN interests_list :
        i # j => interests_list[i] # interests_list[j]

(* ================== one request at a time: outcomes =================== *)
\* The last accepted request has returned.
Returned == pre.thread # 0 /\ frame[pre.thread].pc = "idle"

Outcome == response[pre.thread].outcome
Code == response[pre.thread].reservation_code

KnownIds == pre.user_id \in UserIds /\ pre.venue_id \in VenueIds

PreCount == get_interested_count(pre.interests, pre.venue_id)
Members(ledger) == {ledger[i] : i \in DOMAIN ledger}
PreMember == <<pre.user_id, pre.venue_id>> \in Members(pre.interests)
PreActive == FindActiveBooking(pre.bookings, pre.venue_id)
PostCount == get_interested_count(interests_list, pre.venue_id)

\* C5: with exactly 2 interests on a venue and no active booking, a toggle
\* by a third user returns BookingCreated with a reservation code and
\* installs exactly one new booking, active, for that venue.
C5_Case == Returned /\ KnownIds /\ PreCount = 2 /\ ~PreMember /\ PreActive = 0

C5_ThresholdBoundary ==
    C5_Case =>
        /\ Outcome = "BookingCreated"
        /\ Code # NoCode
        /\ Len(bookings_list) = Len(pre.bookings) + 1
        /\ SubSeq(bookings_list, 1, Len(pre.bookings)) = pre.bookings
        /\ bookings_list[Len(bookings_list)].venue_id = pre.venue_id
        /\ bookings_list[Len(bookings_list)].status = "active"
        /\ bookings_list[Len(bookings_list)].reservation_code = Code
        /\ ActiveBookings(bookings_list, pre.venue_id) = {Len(bookings_list)}

C5_Witness == C5_Case /\ Outcome = "BookingCreated"

\* C6: while a venue has an active booking, a toggle-on by a user not yet
\* interested returns BookingAlreadyActive with that booking's reservation
\* code and leaves the registry as it was.
C6_Case == Returned /\ KnownIds /\ PreActive # 0 /\ ~PreMember

C6_AlreadyActive ==
    C6_Case =>
        /\ Outcome = "BookingAlreadyActive"
        /\ Code = pre.bookings[PreActive].reservation_code
        /\ bookings_list = pre.bookings

C6_Witness == C6_Case /\ Outcome = "BookingAlreadyActive" /\ Code # NoCode

\* C7: with exactly 3 interests and an active booking, a toggle-off by one
\* of the three returns BookingCancelled, the booking's status becomes
\* cancelled, and the venue's booking lookup then finds none.
C7_Case == Returned /\ KnownIds /\ PreCount = 3 /\ PreMember /\ PreActive # 0

C7_CancellationBoundary ==
    C7_Case =>
        /\ Outcome = "BookingCancelled"
        /\ PostCount = 2
        /\ bookings_list[PreActive].status = "cancelled"
        /\ get_venue_booking(bookings_list, pre.venue_id).has_booking = FALSE

C7_Witness == C7_Case /\ Outcome = "BookingCancelled"

\* C8: a toggle-off returns BookingCancelled exactly when the venue has an
\* active booking and the count after removal is below 3; otherwise it
\* returns InterestRemoved and no booking changes.
C8_Case == Returned /\ KnownIds /\ PreMember

C8_CancelIff ==
    C8_Case =>
        /\ Outcome \in {"BookingCancelled", "InterestRemoved"}
        /\ (Outcome = "BookingCancelled") <=> (PreActive # 0 /\ PostCount < 3)
        /\ Outcome = "InterestRemoved" => bookings_list = pre.bookings
        /\ Outcome = "BookingCancelled" =>
              bookings_list = [pre.bookings EXCEPT ![PreActive].status = "cancelled"]

\* the 4 -> 3 case: the booking stays active
C8_Witness ==
    /\ C8_Case /\ PreCount = 4 /\ PreActive # 0
    /\ Outcome = "InterestRemoved"
    /\ bookings_list[PreActive].status = "active"

\* C9: two consecutive toggles of the same pair, nothing in between, restore
\* the ledger's membership, and one of them takes the toggle-on path and the
\* other the toggle-off path.
OnPath(outcome) ==
    outcome \in {"InterestRecorded", "BookingCreated", "BookingAlreadyActive"}
OffPath(outcome) == outcome \in {"InterestRemoved", "BookingCancelled"}

C9_Case ==
    /\ Returned /\ KnownIds
    /\ prev.thread # 0
    /\ prev.user_id = pre.user_id /\ prev.venue_id = pre.venue_id

C9_ToggleSymmetry ==
    C9_Case =>
        /\ Members(interests_list) = Members(prev.interests)
        /\ Members(pre.interests) # Members(prev.interests)
        /\ \/ OnPath(prev.outcome) /\ OffPath(Outcome)
           \/ OffPath(prev.outcome) /\ OnPath(Outcome)

C9_Witness ==
    /\ C9_Case /\ OffPath(prev.outcome) /\ OnPath(Outcome)
    /\ <<pre.user_id, pre.venue_id>> \in Members(interests_list)

\* C10: Score(user_id, venue_id) is the same before and after user_id
\* toggles their own interest in venue_id.
C10_Case == Returned /\ KnownIds /\ (OnPath(Outcome) \/ OffPath(Outcome))

ScoreBefore == calculate_recommendation_score(pre.interests, pre.user_id, pre.venue_id)
ScoreAfter == calculate_recommendation_score(interests_list, pre.user_id, pre.venue_id)

\* as stated: the whole result of Score is unchanged
C10_ScoreResultUnchanged == C10_Case => ScoreAfter = ScoreBefore

\* as amended: score, reasons and friends_interested are unchanged, while
\* total_interested counts the user's own interest and moves by one.
C10_ScoreInvariance ==
    C10_Case =>
        /\ ScoreAfter.score3 = ScoreBefore.score3
        /\ ScoreAfter.reason = ScoreBefore.reason
        /\ ScoreAfter.friends_interested = ScoreBefore.friends_interested
        /\ ScoreAfter.total_interested =
              ScoreBefore.total_interested + (IF OnPath(Outcome) THEN 1 ELSE -1)

C10_Witness ==
    /\ C10_Case /\ OnPath(Outcome)
    /\ ScoreBefore.score3 > 3 * 4
    /\ ScoreAfter.total_interested = ScoreBefore.total_interested + 1

(* ========================= ranking and faults ========================= *)
RankBefore == get_recommendations(pre.interests, pre.user_id)
RankAfter == get_recommendations(interests_list, pre.user_id)

\* C11: when a user toggles interest in one venue, every venue keeps its
\* position in that user's ranking, and among the already_interested flags
\* only the toggled venue's changes.
C11_RankStability ==
    C10_Case =>
        /\ Len(RankAfter) = Len(RankBefore)
        /\ \A i \in DOMAIN RankBefore :
              /\ RankAfter[i].venue_id = RankBefore[i].venue_id
              /\ RankAfter[i].score = RankBefore[i].score
              /\ (RankAfter[i].already_interested # RankBefore[i].already_interested)
                    <=> (RankBefore[i].venue_id = pre.venue_id)

\* the toggled venue ranks first, is now liked, and the venue below it is not
C11_Witness ==
    /\ C10_Case /\ OnPath(Outcome)
    /\ RankAfter[1].venue_id = pre.venue_id
    /\ RankAfter[1].already_interested
    /\ ~RankAfter[2].already_interested
    /\ RankAfter[1].score > RankAfter[2].score

\* C12: when the booking collaborator raises during a toggle-on, the call
\* answers InterestRecorded, the new Interest stays in the ledger and the
\* registry is what it was when the call began.
C12_FaultStep == frame[Server].pc = "agent" /\ frame'[Server].pc = "idle"

C12_FaultKeepsInterest ==
    [][C12_FaultStep =>
          /\ response'[Server].outcome = "InterestRecorded"
          /\ response'[Server].reservation_code = NoCode
          /\ interests_list' = interests_list
          /\ Members(interests_list') =
                Members(pre.interests) \cup {<<pre.user_id, pre.venue_id>>}
          /\ Len(interests_list') = Len(pre.interests) + 1
          /\ bookings_list' = pre.bookings]_vars

\* a call that crossed the threshold and still answered InterestRecorded
C12_Witness ==
    /\ Returned /\ KnownIds /\ ~PreMember
    /\ Outcome = "InterestRecorded"
    /\ PostCount >= threshold
    /\ ActiveBookings(bookings_list, pre.venue_id) = {}
    /\ <<pre.user_id, pre.venue_id>> \in Members(interests_list)

\* C13: a request naming an unknown user or venue is answered NotFound and
\* leaves the ledger, the registry and the lock table as they were; no lock
\* is created for the unknown venue.
C13_UnknownIdStep ==
    calls' # calls /\ (pre'.user_id \notin UserIds \/ pre'.venue_id \notin VenueIds)

C13_NotFound ==
    [][C13_UnknownIdStep =>
          /\ response'[Server].outcome = "NotFound"
          /\ frame' = frame
          /\ interests_list' = interests_list
          /\ bookings_list' = bookings_list
          /\ venue_locks' = venue_locks
          /\ locks' = locks]_vars

C13_Witness ==
    /\ Returned /\ pre.venue_id \notin VenueIds
    /\ Outcome = "NotFound"
    /\ venue_locks[pre.venue_id] = NoLock
    /\ interests_list = pre.interests /\ bookings_list = pre.bookings
    /\ \E v \in VenueIds : venue_locks[v] # NoLock

(* ===================== the registry under concurrency ================= *)
\* C14: no step removes a booking from the registry or changes anything of
\* a booking but its status, and a cancelled booking stays cancelled.
C14_CancelledIsFinal ==
    [][/\ Len(bookings_list') >= Len(bookings_list)
       /\ \A i \in DOMAIN bookings_list :
             /\ bookings_list'[i].id = bookings_list[i].id
             /\ bookings_list'[i].venue_id = bookings_list[i].venue_id
             /\ bookings_list'[i].reservation_code = bookings_list[i].reservation_code
             /\ bookings_list[i].status = "cancelled"
                   => bookings_list'[i].status = "cancelled"]_vars

\* a venue crossed the threshold again after a cancellation: the cancelled
\* booking is still there, next to the new active one
C14_Witness ==
    \E i, j \in DOMAIN bookings_list :
        /\ i < j
        /\ bookings_list[i].venue_id = bookings_list[j].venue_id
        /\ bookings_list[i].status = "cancelled"
        /\ bookings_list[j].status = "active"
        /\ \A t \in Threads : frame[t].pc = "idle"

\* C15: the ids of the bookings in the registry are pairwise distinct.
C15_BookingIdsDistinct ==
    \A i, j \in DOMAIN bookings_list :
        i # j => bookings_list[i].id # bookings_list[j].id

\* C16: whenever no request for a venue is in progress, an active booking
\* of that venue is backed by at least 3 Interests in the ledger.
C16_BookingBacked ==
    \A v \in VenueIds :
        (/\ \A t \in Threads : frame[t].venue_id # v
         /\ ActiveBookings(bookings_list, v) # {})
            => get_interested_count(interests_list, v) >= threshold

Occurrences(ledger, pair) ==
    Cardinality({i \in DOMAIN ledger : ledger[i] = pair})

BookingsOf(bookings, venue_id) ==
    SelectSeq(bookings, LAMBDA b : b.venue_id = venue_id)

\* C17: a step changes the ledger only at the (user, venue) pair of a
\* request in progress and the registry only for the venue of a request in
\* progress: the Interests of every other pair and the bookings of every
\* other venue are left as they were.
C17_FrameEffect ==
    [][/\ \A pair \in UserIds \X VenueIds :
              (\A t \in Threads : <<frame[t].user_id, frame[t].venue_id>> # pair)
                  => Occurrences(interests_list', pair)
                        = Occurrences(interests_list, pair)
       /\ \A v \in VenueIds :
              (\A t \in Threads : frame[t].venue_id # v)
                  => BookingsOf(bookings_list', v) = BookingsOf(bookings_list, v)]_vars

ToggleOutcomes ==
    {"InterestRecorded", "InterestRemoved", "BookingCreated",
     "BookingAlreadyActive", "BookingCancelled"}

\* C18: every response a request has produced is one of the five toggle
\* outcomes or NotFound (unknown ids); no request ends in an unhandled error.
C18_NoUnhandledFailure ==
    \A t \in Threads :
        response[t].outcome \in ToggleOutcomes \cup {"NotFound", "none"}

\* C19: a request in progress can always take its next step, unless it waits
\* for its venue's lock and that lock is held by a request on the same
\* venue; a lock held for a different venue never blocks it, so it acquires
\* its own venue's lock and runs through the handler to its return.
C19_NotBlockedByOtherVenue ==
    \A t \in Threads :
        frame[t].pc # "idle" =>
            \/ ENABLED Step(t)
            \/ /\ frame[t].pc = "acquire"
               /\ \E s \in Threads \ {t} :
                      /\ locks[frame[t].venue_lock] = s
                      /\ frame[s].venue_id = frame[t].venue_id

C19_Witness ==
    \E s, t \in Threads :
        /\ InLockedSection(s)
        /\ frame[t].pc \in {"off_finish", "on_finish"}
        /\ frame[s].venue_id # frame[t].venue_id
        /\ locks[frame[s].venue_lock] = s
        /\ locks[frame[t].venue_lock] = t

FirstActive(bookings, venue_id) ==
    CHOOSE i \in ActiveBookings(bookings, venue_id) :
        \A j \in ActiveBookings(bookings, venue_id) : i <= j

\* C20: the call of booking_agent leaves the bookings list as it was and
\* answers by the decision rule: below 3 interested users no action,
\* whatever the bookings; otherwise, when the venue has an active booking,
\* "booking_exists" with the code of that booking (the first active one of
\* the venue; cancelled bookings and other venues' bookings do not count);
\* otherwise a new reservation.
C20_DecisionRule ==
    [][(frame[Server].pc = "agent" /\ frame'[Server].pc = "on_finish") =>
          LET venue_id == frame[Server].venue_id
              count == frame[Server].interested_count
              r == frame'[Server].agent_response
          IN  /\ bookings_list' = bookings_list
              /\ IF count < 3
                 THEN ~r.agent_triggered /\ r.action = "None"
                 ELSE IF ActiveBookings(bookings_list, venue_id) # {}
                 THEN /\ ~r.agent_triggered
                      /\ r.action = "booking_exists"
                      /\ r.reservation_code =
                            bookings_list[FirstActive(bookings_list, venue_id)].reservation_code
                 ELSE /\ r.agent_triggered
                      /\ r.action = "reservation_simulated"
                      /\ r.reservation_code # NoCode]_vars

C20_Witness ==
    /\ frame[Server].pc = "on_finish"
    /\ frame[Server].interested_count >= 3
    /\ frame[Server].agent_response.action = "booking_exists"
    /\ \E i, j \in DOMAIN bookings_list :
          /\ i < j
          /\ bookings_list[i].venue_id = frame[Server].venue_id
          /\ bookings_list[i].status = "cancelled"
          /\ bookings_list[j].venue_id = frame[Server].venue_id
          /\ bookings_list[j].status = "active"

\* C21: a step that adds a booking to the registry is the end of a toggle-on
\* (the request's interest was not in the ledger before the call) that
\* answers BookingCreated, on a venue that has at least 3 Interests and no
\* active booking at that moment; it adds exactly one booking, active, for
\* that venue.  No other step lengthens the registry.
C21_AddedOnlyAtThreshold ==
    [][Len(bookings_list') > Len(bookings_list) =>
          \E t \in Threads :
              /\ frame[t].pc = "on_finish"
              /\ frame[t].existing_interest = 0
              /\ response'[t].outcome = "BookingCreated"
              /\ Len(bookings_list') = Len(bookings_list) + 1
              /\ SubSeq(bookings_list', 1, Len(bookings_list)) = bookings_list
              /\ bookings_list'[Len(bookings_list')].venue_id = frame[t].venue_id
              /\ bookings_list'[Len(bookings_list')].status = "active"
              /\ get_interested_count(interests_list, frame[t].venue_id) >= 3
              /\ ActiveBookings(bookings_list, frame[t].venue_id) = {}]_vars

DirectoryPosition(venue_id) ==
    CHOOSE i \in DOMAIN VenueOrder : VenueOrder[i] = venue_id

\* C22: for every user and every ledger, the ranking holds every venue
\* exactly once, scores never increase along it, and venues of equal score
\* stand in directory order; the order is thus fixed by the scores alone,
\* whatever the already_interested flags are.
C22_RankOrder ==
    \A u \in UserIds :
        LET recs == get_recommendations(interests_list, u)
        IN  /\ Len(recs) = Cardinality(VenueIds)
            /\ \A v \in VenueIds :
                  Cardinality({i \in DOMAIN recs : recs[i].venue_id = v}) = 1
            /\ \A i, j \in DOMAIN recs :
                  i < j =>
                      /\ recs[i].score >= recs[j].score
                      /\ recs[i].score = recs[j].score =>
                            DirectoryPosition(recs[i].venue_id)
                                < DirectoryPosition(recs[j].venue_id)

\* a ranking led by a later venue the user already likes, and a tie
C22_Witness ==
    /\ calls > 0
    /\ \E u \in UserIds :
          LET recs == get_recommendations(interests_list, u)
          IN  /\ recs[1].venue_id = VenueOrder[2]
              /\ recs[1].already_interested
              /\ ~recs[2].already_interested
    /\ \E u \in UserIds :
          LET recs == get_recommendations(interests_list, u)
          IN  /\ recs[1].score = recs[2].score
              /\ recs[2].already_interested
              /\ ~recs[1].already_interested

OthersInterested(ledger, user_id, venue_id) ==
    Cardinality({u \in UserIds \ {user_id} :
                    \E i \in DOMAIN ledger : ledger[i] = <<u, venue_id>>})

Smaller(a, b) == IF a <= b THEN a ELSE b

\* three times min(n/3, 3) + (4 if the category matches) + min(n, 3)
ExpectedScore3(n, match) ==
    Smaller(n, 9) + (IF match THEN 12 ELSE 0) + 3 * Smaller(n, 3)

\* C23: for an existing user and venue, with n other users interested in the
\* venue, the score is min(n/3, 3) + (4 if the category matches, else 0)
\* + min(n, 3); it lies between 0 and 10, and no ledger with at least as
\* many other users interested gives a smaller score.
C23_ScoreFormula ==
    \A t \in Threads :
        (response[t].outcome = "Score" /\ response[t].request[1] \in UserIds) =>
            LET user_id == response[t].request[1]
                venue_id == response[t].request[2]
                n == OthersInterested(interests_list, user_id, venue_id)
                score3 == response[t].result.score3
            IN  /\ score3 = ExpectedScore3(n, CategoryMatches(user_id, venue_id))
                /\ 0 <= score3 /\ score3 <= 3 * 10
                /\ \A ledger \in ScoreLedgers :
                      OthersInterested(ledger, user_id, venue_id) >= n =>
                          calculate_recommendation_score(ledger, user_id, venue_id).score3
                              >= score3

\* the popularity cap and the friends cap both bite, and the score is 10
C23_Witness ==
    \E t \in Threads :
        /\ response[t].outcome = "Score"
        /\ response[t].request[1] \in UserIds
        /\ OthersInterested(interests_list, response[t].request[1],
                            response[t].request[2]) > 9
        /\ response[t].result.score3 = 3 * 10

ReadOutcomes == {"Score", "Recommendations", "UserBookings", "VenueBooking"}

\* C24: in every state, also while a toggle holds a venue's lock, a read
\* endpoint can answer (the scorer, the two booking lookups, and the return
\* of a ranking, whatever was computed for it), and the step in which a
\* thread answers a read leaves the ledger, the registry, the lock table,
\* every lock and every request in progress as they were (no lock is
\* taken, none is created).
C24_ReadOnly ==
    /\ [](/\ ENABLED (\E u \in ReadUsers, v \in ReadVenues : ScoreCall(Reader, u, v))
          /\ ENABLED (\E u \in ReadUsers : UserBookings(Reader, u))
          /\ ENABLED (\E v \in ReadVenues : VenueBooking(Reader, v))
          /\ ENABLED Answer(Reader, "Recommendations", <<>>, <<>>))
    /\ [][\A t \in Threads :
              (response'[t] # response[t] /\ response'[t].outcome \in ReadOutcomes)
                  => /\ interests_list' = interests_list
                     /\ bookings_list' = bookings_list
                     /\ venue_locks' = venue_locks
                     /\ locks' = locks
                     /\ frame' = frame]_vars

\* a ranking answered between a toggle's append and its return
C24_Witness ==
    /\ calls = 1
    /\ frame[Server].pc = "agent"
    /\ locks[frame[Server].venue_lock] = Server
    /\ response[Reader].outcome = "Recommendations"
    /\ response[Reader].result
          = get_recommendations(interests_list, response[Reader].request[1])

LocksHeldBy(t) == {l \in DOMAIN locks : locks[l] = t}

\* C25: a thread holds at most one venue lock, and none when it is not
\* serving a request; whenever a request is in progress some thread can
\* take a step (no deadlock); and under fair scheduling every request in
\* progress returns, with its lock released, whether it ends normally or
\* with a failure of the booking collaborator.
C25_Progress ==
    /\ [](/\ \A t \in Threads :
                /\ Cardinality(LocksHeldBy(t)) <= 1
                /\ frame[t].pc = "idle" => LocksHeldBy(t) = {}
          /\ (\E t \in Threads : frame[t].pc # "idle")
                => \E t \in Threads : ENABLED (Step(t) \/ AgentFault(t)))
    /\ \A t \in Threads :
          (frame[t].pc # "idle") ~> (frame[t].pc = "idle" /\ LocksHeldBy(t) = {})

\* a request that ended through a collaborator failure: after the only
\* call, venue v1 has 4 Interests and still no booking, and every lock is free
C25_Witness ==
    /\ calls = 1
    /\ AllIdle
    /\ \E t \in Threads : response[t].outcome = "InterestRecorded"
    /\ get_interested_count(interests_list, "v1") > 3
    /\ get_interested_count(interests_list, "v2") = 0
    /\ bookings_list = <<>>
    /\ locks # <<>>
    /\ \A l \in DOMAIN locks : locks[l] = 0

HasInterest(ledger, user_id, venue_id) ==
    \E i \in DOMAIN ledger : ledger[i] = <<user_id, venue_id>>

\* C26: every booking GET /bookings/{user_id} returns is an active booking
\* of a venue in which the user has an Interest in the ledger.
C26_BookingsBackedByInterest ==
    \A u \in UserIds :
        LET user_bookings == get_user_bookings(bookings_list, u)
        IN  \A i \in DOMAIN user_bookings :
                /\ \E j \in ActiveBookings(bookings_list, user_bookings[i].venue_id) :
                      bookings_list[j].id = user_bookings[i].id
                /\ HasInterest(interests_list, u, user_bookings[i].venue_id)

\* C27: from an empty ledger and registry, with one request at a time and
\* no collaborator failure, whenever no request is in progress each venue
\* has an active booking if and only if it has at least 3 Interests.
C27_BookingIffThreshold ==
    AllIdle =>
        \A v \in VenueIds :
            ActiveBookings(bookings_list, v) # {}
                <=> get_interested_count(interests_list, v) >= 3

\* a venue that crossed the threshold, lost its booking and crossed again
C27_Witness ==
    /\ AllIdle
    /\ \E v \in VenueIds :
          /\ ActiveBookings(bookings_list, v) # {}
          /\ \E i \in DOMAIN bookings_list :
                bookings_list[i].venue_id = v /\ bookings_list[i].status = "cancelled"

====
